---- MODULE Spec2Model ----
(***************************************************************************)
(* Model of streamlit_app.py: the cached data engine get_liquidity_data    *)
(* and the script rerun that calls it.                                     *)
(*                                                                         *)
(* Calendar.  Time is counted in observation slots; a month has            *)
(* SlotsPerMonth slots and month m covers the slots (m-1)*S+1 .. m*S.      *)
(* The month-end label of month m is the slot m*S.  "Today" lies in the    *)
(* running month MaxYears+1, on day slot world.day.  The calendar is       *)
(* scaled: one lookback "year" spans one grid month, so a lookback of y    *)
(* gives a master index of y month ends.                                   *)
(*                                                                         *)
(* Numbers.  A float is a pair <<n, d>>: the rational n/d in lowest terms  *)
(* with d > 0, and NaN is <<0, 0>>.  Provider values are positive, so no   *)
(* division by zero occurs.                                                *)
(*                                                                         *)
(* Specifications.  SpecData runs the body of get_liquidity_data once on   *)
(* every provider world and slider setting drawn by InitData.  Spec is the *)
(* script session: reruns and slider changes call the function through     *)
(* st.cache_data while time passes, FRED fails and recovers, and the       *)
(* providers revise their data.                                            *)
(***************************************************************************)
EXTENDS Integers, Sequences, FiniteSets, TLC

\* ---------------------------------------------------------------- bounds
MaxYears == 4
SlotsPerMonth == 3
ShiftSpan == 1

\* ------------------------------------------------------ program constants
MinYears == 3
MinShift == -24
MaxShift == 24
TTL == 43200
ScaleBillions == 1000
ScaleMillions == 1000000
BojDivisor == 10000
MnavDivisor == 100

\* ------------------------------------------------------------- rationals
NaN == <<0, 0>>
Zero == <<0, 1>>

IsNaN(x) == x[2] = 0
IsDef(x) == x[2] # 0

RECURSIVE GCD(_, _)
GCD(a, b) == IF b = 0 THEN a ELSE GCD(b, a % b)

Rat(n, d) == LET g == GCD(n, d) IN IF n = 0 THEN Zero ELSE <<n \div g, d \div g>>

RAdd(x, y) ==
    IF IsNaN(x) \/ IsNaN(y) THEN NaN
    ELSE LET g == GCD(x[2], y[2])
             l == (x[2] \div g) * y[2]
         IN  Rat(x[1] * (l \div x[2]) + y[1] * (l \div y[2]), l)

RMul(x, y) ==
    IF IsNaN(x) \/ IsNaN(y) THEN NaN
    ELSE LET a == Rat(x[1], y[2])
             b == Rat(y[1], x[2])
         IN  IF x[1] = 0 \/ y[1] = 0 THEN Zero ELSE <<a[1] * b[1], a[2] * b[2]>>

RDiv(x, y) == IF IsNaN(x) \/ IsNaN(y) THEN NaN ELSE RMul(x, <<y[2], y[1]>>)

RDivInt(x, k) == RDiv(x, <<k, 1>>)

\* Series.fillna(0)
FillNa0(x) == IF IsNaN(x) THEN Zero ELSE x

\* the same function, with every value computed once
Eager(f) == f @@ [x \in {} |-> NaN]

Max(S) == CHOOSE x \in S : \A y \in S : y <= x
Min(S) == CHOOSE x \in S : \A y \in S : x <= y

\* ------------------------------------------------------ provider series
FxTickers == <<"EURUSD=X", "JPY=X", "CNY=X">>
\* tickers of the joint market download
tickers == <<"EURUSD=X", "JPY=X", "CNY=X", "BTC-USD">>
\* FRED codes in the order get_liquidity_data fetches them
FredCodes == <<"M2SL", "MANMM101EZM189S", "MANMM101JPM189S", "MANMM101CNM189S",
               "WALCL", "ECBASSETSW", "JPNASSETS">>
AllSeries == <<"EURUSD=X", "JPY=X", "CNY=X", "BTC-USD", "MSTR",
               "M2SL", "MANMM101EZM189S", "MANMM101JPM189S", "MANMM101CNM189S",
               "WALCL", "ECBASSETSW", "JPNASSETS">>
SeriesNames == {AllSeries[i] : i \in DOMAIN AllSeries}
Range(seq) == {seq[i] : i \in DOMAIN seq}

\* Monthly releases are dated on the first day (slot 1) of their month;
\* daily quotes and weekly releases have an observation in every slot.
MonthlyCodes == {"M2SL", "MANMM101EZM189S", "MANMM101JPM189S", "MANMM101CNM189S",
                 "JPNASSETS"}

MonthOf(t) == ((t - 1) \div SlotsPerMonth) + 1
MonthEnd(m) == m * SlotsPerMonth
Months == 1 .. MaxYears
Slots == 1 .. (MaxYears * SlotsPerMonth)

IndexOf(name) == CHOOSE i \in DOMAIN AllSeries : AllSeries[i] = name

\* The value a provider publishes for series `name` at slot t (revision rev).
Published(name, t, rev) == <<10 * IndexOf(name) + t + rev, 1>>

\* An irregularity of one series: in a run of consecutive months its observations are
\* either not published at all ("gap") or published with a missing value ("nan").
Patterns == [kind : {"gap", "nan"}, months : {a .. b : a, b \in Months} \ {{}}]

\* Today is the first day of its month or a later day that is not the month end.
Days == {1, SlotsPerMonth - 1}

\* The provider's data: today's day slot, the irregular series (at most one),
\* the revision.
NoIrregular == [n \in {} |-> [kind |-> "gap", months |-> {}]]
Worlds(revs) ==
    {[day |-> d, irr |-> i, rev |-> r] :
        d \in Days,
        i \in {NoIrregular} \cup {[x \in {n} |-> p] : n \in SeriesNames, p \in Patterns},
        r \in revs}

\* start_date = now - DateOffset(years): the same day slot, `years` months back.
StartSlot(years, w) == (MaxYears - years) * SlotsPerMonth + w.day

\* The raw series a provider returns for `name` from `start` on: a function
\* from the observation slots (the index) to values.
Fetch(w, name, start) ==
    LET cadence == IF name \in MonthlyCodes
                   THEN {t \in Slots : (t - 1) % SlotsPerMonth = 0}
                   ELSE Slots
        irregular == name \in DOMAIN w.irr
        hit(t) == irregular /\ MonthOf(t) \in w.irr[name].months
        idx == {t \in cadence : t >= start /\ ~(hit(t) /\ w.irr[name].kind = "gap")}
    IN  Eager([t \in idx |-> IF hit(t) THEN NaN ELSE Published(name, t, w.rev)])

\* yf.download(list, start)['Close']: one column per ticker on the union of
\* the tickers' dates, NaN where a ticker has no quote on a date.
Download(w, tks, start) ==
    LET idx == UNION {DOMAIN Fetch(w, tk, start) : tk \in tks}
    IN  Eager([tk \in tks |->
            LET s == Fetch(w, tk, start)
            IN  Eager([t \in idx |-> IF t \in DOMAIN s THEN s[t] ELSE NaN])])

\* ------------------------------------------------------------ pandas
RECURSIVE RSum(_, _)
RSum(s, ts) ==
    IF ts = {} THEN Zero
    ELSE LET t == CHOOSE x \in ts : TRUE IN RAdd(s[t], RSum(s, ts \ {t}))

\* mean of the non-missing values of s on the slots ts (NaN if there is none)
Mean(s, ts) ==
    LET ok == {t \in ts : IsDef(s[t])}
    IN  IF ok = {} THEN NaN ELSE RDivInt(RSum(s, ok), Cardinality(ok))

\* the month-end labels of the bins spanned by an index
Bins(idx) ==
    IF idx = {} THEN {}
    ELSE {MonthEnd(m) : m \in MonthOf(Min(idx)) .. MonthOf(Max(idx))}

\* Series.resample('M').mean()
ResampleMean(s) ==
    Eager([l \in Bins(DOMAIN s) |->
        Mean(s, {t \in DOMAIN s : MonthOf(t) = MonthOf(l)})])

\* the value at the last label at or before g, missing values included
AsOf(s, g) ==
    LET c == {t \in DOMAIN s : t <= g}
    IN  IF c = {} THEN NaN ELSE s[Max(c)]

\* Series.reindex(index, method='ffill'), as a sequence over grid positions
ReindexFfill(s, grid) == Eager([i \in DOMAIN grid |-> AsOf(s, grid[i])])

\* Series.resample('M').ffill()
ResampleFfill(s) == Eager([l \in Bins(DOMAIN s) |-> AsOf(s, l)])

\* Series.ffill()
Ffill(col) ==
    Eager([i \in DOMAIN col |->
        LET c == {j \in 1 .. i : IsDef(col[j])}
        IN  IF c = {} THEN NaN ELSE col[Max(c)]])

\* a shift in the opposite direction
ShiftBackward(col, k) ==
    Eager([i \in DOMAIN col |-> IF (i + k) \in DOMAIN col THEN col[i + k] ELSE NaN])

\* Series.shift(periods=k)
Shift(col, k) ==
    Eager([i \in DOMAIN col |-> IF (i - k) \in DOMAIN col THEN col[i - k] ELSE NaN])

\* pd.date_range(start_date, today, freq='M'): the month ends from the start
\* month to the last completed month; a grid point carries the time of day of
\* `now`, so every observation dated on the month end lies at or before it.
MasterIndex(years) == Eager([i \in 1 .. years |-> MonthEnd(MaxYears - years + i)])

\* ------------------------------------------------ get_liquidity_data
\* element-wise arithmetic of two columns on the master index
ColMul(a, b) == Eager([i \in DOMAIN a |-> RMul(a[i], b[i])])
ColDiv(a, b) == Eager([i \in DOMAIN a |-> RDiv(a[i], b[i])])
ColAdd(a, b) == Eager([i \in DOMAIN a |-> RAdd(a[i], b[i])])
ColScale(a, k) == Eager([i \in DOMAIN a |-> RDivInt(a[i], k)])
ColFillNa0(a) == Eager([i \in DOMAIN a |-> FillNa0(a[i])])

\* market_monthly[ticker].reindex(df.index, method='ffill')
AlignFx(market_data, ticker, grid) ==
    ReindexFfill(ResampleMean(market_data[ticker]), grid)

\* fred.get_series(code).reindex(df.index, method='ffill')
AlignMacro(raw, grid) == ReindexFfill(raw, grid)

\* fred.get_series(code).resample('M').ffill().reindex(df.index, method='ffill')
AlignAssets(raw, grid) == ReindexFfill(ResampleFfill(raw), grid)

\* a price series collapsed to monthly means before it is aligned
AlignPriceMean(raw, grid) == ReindexFfill(ResampleMean(raw), grid)

\* yf.download(ticker)['Close'].reindex(df.index, method='ffill')
AlignPrice(raw, grid) == ReindexFfill(raw, grid)

\* us_val, eu_val, jp_val, cn_val
UsVal(m2_us) == ColScale(m2_us, ScaleBillions)
EuVal(m2_eu, fx_eu) == ColScale(ColMul(m2_eu, fx_eu), ScaleMillions)
JpVal(m2_jp, fx_jp) == ColScale(ColDiv(m2_jp, fx_jp), ScaleMillions)
CnVal(m2_cn, fx_cn) == ColScale(ColMul(m2_cn, fx_cn), ScaleMillions)

\* the sum of the zero-filled money-supply components, before .shift()
M2Sum(us_val, eu_val, jp_val, cn_val) ==
    ColAdd(ColAdd(ColAdd(ColFillNa0(us_val), ColFillNa0(eu_val)),
                  ColFillNa0(jp_val)), ColFillNa0(cn_val))

\* fed_assets, ecb_assets, boj_assets (cb_boj * 0.0001 / fx_jp)
FedAssets(cb_fed) == ColScale(cb_fed, ScaleMillions)
EcbAssets(cb_ecb, fx_eu) == ColScale(ColMul(cb_ecb, fx_eu), ScaleMillions)
BojAssets(cb_boj, fx_jp) == ColDiv(ColScale(cb_boj, BojDivisor), fx_jp)

\* df['Global_Assets']
AssetsSum(fed_assets, ecb_assets, boj_assets) ==
    ColAdd(ColAdd(ColFillNa0(fed_assets), ColFillNa0(ecb_assets)),
           ColFillNa0(boj_assets))

\* the scaled ratio without the final .ffill()
MstrMnavNoFfill(ratio) == ColScale(ratio, MnavDivisor)

\* df['MSTR_Ratio'] and df['MSTR_MNAV']
MstrRatio(price, btc) == ColDiv(price, btc)
MstrMnav(ratio) == Ffill(ColScale(ratio, MnavDivisor))

\* dropna(how='any') over the same columns
DropNaAny(rows) ==
    SelectSeq(rows, LAMBDA r : ~(IsNaN(r.Global_M2) \/ IsNaN(r.Global_Assets)
                                 \/ IsNaN(r.MSTR_MNAV)))

\* df.dropna(subset=['Global_M2', 'Global_Assets', 'MSTR_MNAV'], how='all')
DropNa(rows) ==
    SelectSeq(rows, LAMBDA r : ~(IsNaN(r.Global_M2) /\ IsNaN(r.Global_Assets)
                                 /\ IsNaN(r.MSTR_MNAV)))

\* return values of get_liquidity_data
NoTable == [status |-> "unset", rows |-> <<>>]
None == [status |-> "none", rows |-> <<>>]
Table(rows) == [status |-> "table", rows |-> rows]

\* one provider call in the fetch log
Call(src, id, ok) == [src |-> src, id |-> id, ok |-> ok]

\* a try block that covers the four money-supply fetches only
FirstFailureM2Only(down) ==
    LET bad == {i \in 1 .. 4 : FredCodes[i] \in down}
    IN  IF bad = {} THEN 0 ELSE CHOOSE i \in bad : \A j \in bad : i <= j

\* the position in FredCodes of the first fetch that raises (0: none does)
FirstFailure(down) ==
    LET bad == {i \in DOMAIN FredCodes : FredCodes[i] \in down}
    IN  IF bad = {} THEN 0 ELSE Min(bad)

\* raw: the fetched series; aligned: the same on the master index; m2, assets:
\* the normalized components; m2_sum: their sum before .shift(); frame: df
\* before .dropna()
NoLocals == [raw |-> <<>>, aligned |-> <<>>, m2 |-> <<>>, assets |-> <<>>,
             m2_sum |-> <<>>, frame |-> <<>>, grid |-> <<>>]

\* The body of get_liquidity_data(years, m2_shift_months) run against the
\* provider data w while the FRED codes in `down` raise: its return value,
\* the provider calls it issued, and its local series when it returned.
GetLiquidityData(years, shift, w, down) ==
    LET start == StartSlot(years, w)
        grid == MasterIndex(years)
        market_data == Download(w, Range(tickers), start)
        fx_eu == AlignFx(market_data, "EURUSD=X", grid)
        fx_jp == AlignFx(market_data, "JPY=X", grid)
        fx_cn == AlignFx(market_data, "CNY=X", grid)
        fail == FirstFailure(down)
        fredCalls(n) == [i \in 1 .. n |-> Call("fred", FredCodes[i], FredCodes[i] \notin down)]
        m2_us == AlignMacro(Fetch(w, "M2SL", start), grid)
        m2_eu == AlignMacro(Fetch(w, "MANMM101EZM189S", start), grid)
        m2_jp == AlignMacro(Fetch(w, "MANMM101JPM189S", start), grid)
        m2_cn == AlignMacro(Fetch(w, "MANMM101CNM189S", start), grid)
        cb_fed == AlignAssets(Fetch(w, "WALCL", start), grid)
        cb_ecb == AlignAssets(Fetch(w, "ECBASSETSW", start), grid)
        cb_boj == AlignAssets(Fetch(w, "JPNASSETS", start), grid)
        us_val == UsVal(m2_us)
        eu_val == EuVal(m2_eu, fx_eu)
        jp_val == JpVal(m2_jp, fx_jp)
        cn_val == CnVal(m2_cn, fx_cn)
        m2_sum == M2Sum(us_val, eu_val, jp_val, cn_val)
        Global_M2 == Shift(m2_sum, shift)
        fed_assets == FedAssets(cb_fed)
        ecb_assets == EcbAssets(cb_ecb, fx_eu)
        boj_assets == BojAssets(cb_boj, fx_jp)
        Global_Assets == AssetsSum(fed_assets, ecb_assets, boj_assets)
        BTC == AlignPrice(Fetch(w, "BTC-USD", start), grid)
        MSTR_Price == AlignPrice(Fetch(w, "MSTR", start), grid)
        MSTR_Ratio == MstrRatio(MSTR_Price, BTC)
        MSTR_MNAV == MstrMnav(MSTR_Ratio)
        rows == [i \in DOMAIN grid |->
                    [pos |-> i,
                     Global_M2 |-> Global_M2[i],
                     Global_Assets |-> Global_Assets[i],
                     BTC |-> BTC[i],
                     MSTR_Price |-> MSTR_Price[i],
                     MSTR_Ratio |-> MSTR_Ratio[i],
                     MSTR_MNAV |-> MSTR_MNAV[i]]]
        fxAligned == ("EURUSD=X" :> fx_eu) @@ ("JPY=X" :> fx_jp) @@ ("CNY=X" :> fx_cn)
        fxRaw == [n \in Range(FxTickers) |-> market_data[n]]
    IN  IF fail # 0
        THEN [ret |-> None,
              log |-> <<Call("yf", "market", TRUE)>> \o fredCalls(fail),
              locals |-> [NoLocals EXCEPT !.raw = fxRaw, !.aligned = fxAligned,
                                          !.grid = grid]]
        ELSE [ret |-> Table(DropNa(rows)),
              log |-> <<Call("yf", "market", TRUE)>> \o fredCalls(Len(FredCodes))
                      \o <<Call("yf", "BTC-USD", TRUE), Call("yf", "MSTR", TRUE)>>,
              locals |->
                [raw |-> fxRaw @@ [n \in SeriesNames \ Range(FxTickers) |->
                                      Fetch(w, n, start)],
                 aligned |-> fxAligned
                     @@ ("M2SL" :> m2_us) @@ ("MANMM101EZM189S" :> m2_eu)
                     @@ ("MANMM101JPM189S" :> m2_jp) @@ ("MANMM101CNM189S" :> m2_cn)
                     @@ ("WALCL" :> cb_fed) @@ ("ECBASSETSW" :> cb_ecb)
                     @@ ("JPNASSETS" :> cb_boj)
                     @@ ("BTC-USD" :> BTC) @@ ("MSTR" :> MSTR_Price),
                 m2 |-> <<us_val, eu_val, jp_val, cn_val>>,
                 assets |-> <<fed_assets, ecb_assets, boj_assets>>,
                 m2_sum |-> m2_sum,
                 frame |-> rows,
                 grid |-> grid]]

\* ------------------------------------------------------------- state
VARIABLES
    world,            \* what the two providers would return now
    fredDown,         \* the FRED codes whose fetch raises now
    lookback_years,   \* the "Timeframe (Years)" slider
    m2_shift_months,  \* the "M2 Time Shift (Months)" slider
    cache,            \* st.cache_data: key -> [value, age in seconds]
    df,               \* the value the last call of get_liquidity_data returned
    page,             \* what the last script run rendered
    fetchLog,         \* the provider calls the last call issued
    locals,           \* the local series of the last executed function body
    history           \* per key: what its last execution returned, and how long
                      \* ago, while that is less than the expiry window

vars == <<world, fredDown, lookback_years, m2_shift_months, cache, df, page,
          fetchLog, locals, history>>

\* the sliders: st.slider(3, 15, 8) on the scaled calendar, st.slider(-24, 24, 0)
YearChoices == {MinYears, MaxYears}
\* the shifts tried: both ends of the slider and the steps around zero
ShiftChoices == {MinShift, MaxShift} \cup (-ShiftSpan .. ShiftSpan)
DefaultYears == IF 8 \in YearChoices THEN 8 ELSE MaxYears

\* the key st.cache_data derives from the call's arguments
CacheKey(years, shift) == <<years, shift>>

\* an expiry one second early
ExpiredEarly(age) == age >= TTL - 1

\* an entry is dropped once its age reaches the ttl
Expired(age) == age >= TTL

EmptyCache == [k \in {} |-> [value |-> None, age |-> 0]]

\* a cache that does not keep a None
StoreUnlessNone(c, key, ret) ==
    IF ret.status = "none" THEN c
    ELSE [k \in DOMAIN c \cup {key} |->
             IF k = key THEN [value |-> ret, age |-> 0] ELSE c[k]]

\* the return value, None included, is stored under the key with age 0
Store(c, key, ret) ==
    [k \in DOMAIN c \cup {key} |->
        IF k = key THEN [value |-> ret, age |-> 0] ELSE c[k]]

\* the render block: a chart for a non-empty table, an error otherwise
Render(ret) == IF ret.status = "table" /\ ret.rows # <<>> THEN "chart" ELSE "error"

InitCommon ==
    /\ cache = EmptyCache
    /\ df = NoTable
    /\ page = "blank"
    /\ fetchLog = <<>>
    /\ locals = NoLocals
    /\ history = EmptyCache

\* -------------------------------------------- the engine on its own
\* Every provider world with at most one irregular series, or a regular
\* world with any set of FRED codes failing.
InitData ==
    /\ world \in Worlds({0})
    /\ fredDown \in SUBSET Range(FredCodes)
    /\ (fredDown # {} => world.irr = NoIrregular)
    /\ lookback_years \in YearChoices
    /\ m2_shift_months \in ShiftChoices
    /\ InitCommon

\* One execution of the body of get_liquidity_data(lookback_years,
\* m2_shift_months), and the render block.
Compute ==
    LET r == GetLiquidityData(lookback_years, m2_shift_months, world, fredDown)
    IN  /\ df = NoTable
        /\ df' = r.ret
        /\ page' = Render(r.ret)
        /\ fetchLog' = r.log
        /\ locals' = r.locals
        /\ UNCHANGED <<world, fredDown, lookback_years, m2_shift_months, cache,
                       history>>

NextData == Compute

SpecData == InitData /\ [][NextData]_vars

\* ------------------------------------------------- the cached script
\* the slider positions visited in a session
SessionYears == YearChoices
SessionShifts == {0, 1}

Init ==
    /\ world = [day |-> SlotsPerMonth - 1, irr |-> NoIrregular, rev |-> 0]
    /\ fredDown = {}
    /\ lookback_years = DefaultYears
    /\ m2_shift_months = 0
    /\ InitCommon

\* df = get_liquidity_data(lookback_years, m2_shift_months) through
\* @st.cache_data(ttl=43200), then the render block.
Invoke(years, shift) ==
    LET key == CacheKey(years, shift)
        hit == key \in DOMAIN cache /\ ~Expired(cache[key].age)
        r == GetLiquidityData(years, shift, world, fredDown)
    IN  /\ lookback_years' = years
        /\ m2_shift_months' = shift
        /\ IF hit
           THEN /\ df' = cache[key].value
                /\ fetchLog' = <<>>
                /\ UNCHANGED <<cache, history>>
           ELSE /\ df' = r.ret
                /\ fetchLog' = r.log
                /\ cache' = Store(cache, key, r.ret)
                /\ history' = [k \in DOMAIN history \cup {<<years, shift>>} |->
                                  IF k = <<years, shift>>
                                  THEN [value |-> r.ret, age |-> 0]
                                  ELSE history[k]]
        /\ page' = Render(df')
        /\ UNCHANGED <<world, fredDown, locals>>

\* a script rerun with the sliders untouched (another widget changed)
Rerun == Invoke(lookback_years, m2_shift_months)

ChangeYears(y) == y # lookback_years /\ Invoke(y, m2_shift_months)

ChangeShift(k) == k # m2_shift_months /\ Invoke(lookback_years, k)

\* wall-clock time passes: every entry ages, expired entries are dropped
TickDeltas == {TTL - 1, TTL}
Tick(d) ==
    /\ (cache # EmptyCache \/ history # EmptyCache)
    /\ cache' = [k \in {j \in DOMAIN cache : ~Expired(cache[j].age + d)} |->
                    [cache[k] EXCEPT !.age = @ + d]]
    /\ history' = [k \in {j \in DOMAIN history : history[j].age + d < 43200} |->
                      [history[k] EXCEPT !.age = @ + d]]
    /\ UNCHANGED <<world, fredDown, lookback_years, m2_shift_months, df, page,
                   fetchLog, locals>>

\* FRED starts or stops failing (a rejected key, an outage)
FredOutage ==
    /\ fredDown = {}
    /\ fredDown' = Range(FredCodes)
    /\ UNCHANGED <<world, lookback_years, m2_shift_months, cache, df, page,
                   fetchLog, locals, history>>

FredRecover ==
    /\ fredDown # {}
    /\ fredDown' = {}
    /\ UNCHANGED <<world, lookback_years, m2_shift_months, cache, df, page,
                   fetchLog, locals, history>>

\* the providers revise the values they publish
ProviderRevise ==
    /\ world.rev = 0
    /\ world' = [world EXCEPT !.rev = 1]
    /\ UNCHANGED <<fredDown, lookback_years, m2_shift_months, cache, df, page,
                   fetchLog, locals, history>>

Next ==
    \/ Rerun
    \/ \E y \in SessionYears : ChangeYears(y)
    \/ \E k \in SessionShifts : ChangeShift(k)
    \/ \E d \in TickDeltas : Tick(d)
    \/ FredOutage
    \/ FredRecover
    \/ ProviderRevise

Spec == Init /\ [][Next]_vars

\* ------------------------------------------------------------ claims
\* the body of get_liquidity_data ran to its end and built a frame
Built == df.status = "table"
Grid == DOMAIN locals.frame
Col(name) == [i \in Grid |-> locals.frame[i][name]]

MonotoneFill(col) ==
    \A i, j \in DOMAIN col : (i < j /\ IsDef(col[i])) => IsDef(col[j])

\* C1: every series aligned onto the master index is monotonically filled: once
\* defined at a grid position it is defined at every later position.
C1_MonotonicFill ==
    \A n \in DOMAIN locals.aligned : MonotoneFill(locals.aligned[n])

\* the sum the aggregation contract asks for at grid position i
RECURSIVE ZeroSubstSum(_, _, _)
ZeroSubstSum(comps, n, i) ==
    IF n = 0 THEN Zero ELSE RAdd(FillNa0(comps[n][i]), ZeroSubstSum(comps, n - 1, i))

Composite(comps, i) ==
    IF \A n \in DOMAIN comps : IsNaN(comps[n][i]) THEN NaN
    ELSE ZeroSubstSum(comps, Len(comps), i)

\* C2: each composite is the zero-substituted sum of its components and is
\* undefined exactly where all of its components are undefined.
C2_Aggregation ==
    Built =>
        \A i \in Grid :
            /\ locals.m2_sum[i] = Composite(locals.m2, i)
            /\ locals.frame[i].Global_Assets = Composite(locals.assets, i)

\* C3: Global_M2 at position i is the unshifted composite at position i - k,
\* undefined when i - k is off the grid; for k = 0 the two are equal.
C3_Shift ==
    Built =>
        /\ \A i \in Grid :
              locals.frame[i].Global_M2 =
                  IF (i - m2_shift_months) \in Grid
                  THEN locals.m2_sum[i - m2_shift_months] ELSE NaN
        /\ (m2_shift_months = 0 => Col("Global_M2") = locals.m2_sum)

C3_Witness ==
    /\ Built
    /\ m2_shift_months = 1
    /\ IsNaN(locals.frame[1].Global_M2)
    /\ IsDef(locals.frame[2].Global_M2)
    /\ locals.frame[2].Global_M2 # locals.m2_sum[2]

InvocationStep ==
    /\ UNCHANGED <<world, fredDown>>
    /\ \A k \in DOMAIN history :
          k \in DOMAIN history' /\ history'[k].age <= history[k].age

\* C5: an invocation whose key was computed less than 43200 s ago returns what
\* that computation returned and issues no fetch; any other invocation runs the
\* body again and fetches.
C5_CacheHit ==
    [][InvocationStep =>
          LET key == <<lookback_years', m2_shift_months'>>
          IN  IF key \in DOMAIN history /\ history[key].age < 43200
              THEN df' = history[key].value /\ fetchLog' = <<>>
              ELSE /\ fetchLog' # <<>>
                   /\ df' = GetLiquidityData(key[1], key[2], world, fredDown).ret]_vars

\* a table computed before the providers revised their data is served again,
\* one second before it expires
C5_Witness ==
    /\ Built
    /\ fetchLog = <<>>
    /\ fredDown = {}
    /\ <<lookback_years, m2_shift_months>> \in DOMAIN history
    /\ history[<<lookback_years, m2_shift_months>>].age = 43199
    /\ df # GetLiquidityData(lookback_years, m2_shift_months, world, fredDown).ret

\* C6: when any FRED fetch fails the function returns None, never a table,
\* whichever code failed and however many earlier fetches succeeded.
C6_MacroFailureAborts ==
    (df # NoTable /\ fredDown # {}) =>
        /\ df = None
        /\ page = "error"
        /\ ~fetchLog[Len(fetchLog)].ok
        /\ \A i \in 1 .. (Len(fetchLog) - 1) : fetchLog[i].ok

\* the last of the seven fetches fails after six succeeded
C6_Witness ==
    /\ df = None
    /\ fredDown = {"JPNASSETS"}
    /\ Len(fetchLog) = 8
    /\ fetchLog[7].ok
    /\ ~fetchLog[8].ok

\* the quoting convention of an FX ticker
ForeignPerUsd == {"JPY=X", "CNY=X"}
ToUsd(amount, fx, ticker) ==
    IF ticker \in ForeignPerUsd THEN ColDiv(amount, fx) ELSE ColMul(amount, fx)

\* C7: every non-USD component is divided by a rate quoted as foreign currency
\* per USD (JPY=X, CNY=X) and multiplied by one quoted as USD per unit (EURUSD=X).
C7_FxDirection ==
    Built =>
        LET a == locals.aligned
            usd(code, ticker) == ToUsd(a[code], a[ticker], ticker)
        IN  /\ locals.m2[2] = ColScale(usd("MANMM101EZM189S", "EURUSD=X"), ScaleMillions)
            /\ locals.m2[3] = ColScale(usd("MANMM101JPM189S", "JPY=X"), ScaleMillions)
            /\ locals.m2[4] = ColScale(usd("MANMM101CNM189S", "CNY=X"), ScaleMillions)
            /\ locals.assets[2] = ColScale(usd("ECBASSETSW", "EURUSD=X"), ScaleMillions)
            /\ locals.assets[3] = ColScale(usd("JPNASSETS", "JPY=X"), BojDivisor)

\* the observations of a raw series that fall in the month of grid position i
InMonth(raw, i) == {t \in DOMAIN raw : MonthOf(t) = MonthOf(locals.grid[i])}
HasObservation(raw, i) == \E t \in InMonth(raw, i) : IsDef(raw[t])
MeanCollapsed(n) ==
    \A i \in Grid :
        HasObservation(locals.raw[n], i) =>
            locals.aligned[n][i] = Mean(locals.raw[n], InMonth(locals.raw[n], i))
LastObservation(n) ==
    \A i \in Grid : locals.aligned[n][i] = AsOf(locals.raw[n], locals.grid[i])

FinerThanMonthly == SeriesNames \ MonthlyCodes

\* C8 as claimed: every series finer than monthly is reduced to the mean of the
\* observations of each month before it is placed on the grid.
C8_MeanCollapseAll == Built => \A n \in FinerThanMonthly : MeanCollapsed(n)

\* C8 as amended: only the three FX series are reduced to the monthly mean; the
\* BTC and MSTR prices and the central-bank-asset series, like the monthly
\* releases, carry the last observation at or before the grid point.
C8_MeanCollapseFx ==
    Built =>
        /\ \A n \in Range(FxTickers) : MeanCollapsed(n)
        /\ \A n \in SeriesNames \ Range(FxTickers) : LastObservation(n)

\* a month whose mean and last quote differ: the FX rate carries the mean, the
\* BTC price the last quote
C8_Witness ==
    /\ Built
    /\ \E i \in Grid :
          /\ HasObservation(locals.raw["JPY=X"], i)
          /\ locals.aligned["JPY=X"][i] # AsOf(locals.raw["JPY=X"], locals.grid[i])
          /\ HasObservation(locals.raw["BTC-USD"], i)
          /\ locals.aligned["BTC-USD"][i] #
                 Mean(locals.raw["BTC-USD"], InMonth(locals.raw["BTC-USD"], i))
          /\ locals.aligned["WALCL"][i] #
                 Mean(locals.raw["WALCL"], InMonth(locals.raw["WALCL"], i))

\* the grid positions up to i at which both prices are defined
Computed(i) ==
    {j \in 1 .. i : IsDef(locals.frame[j].MSTR_Price) /\ IsDef(locals.frame[j].BTC)}

\* C9: MSTR_MNAV is (MSTR_Price / BTC) / divisor where both prices are defined,
\* else the most recent earlier computed ratio, and undefined only before the
\* first computed ratio.
C9_DerivedRatio ==
    Built =>
        \A i \in Grid :
            locals.frame[i].MSTR_MNAV =
                IF Computed(i) = {} THEN NaN
                ELSE LET j == Max(Computed(i))
                     IN  RDivInt(RDiv(locals.frame[j].MSTR_Price, locals.frame[j].BTC),
                                 MnavDivisor)

\* a price is missing after a ratio was computed, and the ratio is carried over
C9_Witness ==
    /\ Built
    /\ \E i \in Grid :
          /\ IsNaN(locals.frame[i].MSTR_Price)
          /\ IsDef(locals.frame[i].BTC)
          /\ Computed(i) # {}
          /\ IsDef(locals.frame[i].MSTR_MNAV)

\* C10: a None returned because a FRED fetch failed is cached like a table:
\* until 43200 s have passed, an invocation with the same key yields None again
\* without any fetch, whatever FRED would answer now; the failed computation
\* itself is stored under its key.
C10_FailureCached ==
    [][InvocationStep =>
          LET key == <<lookback_years', m2_shift_months'>>
          IN  /\ (key \in DOMAIN history /\ history[key].value = None)
                    => (df' = None /\ page' = "error" /\ fetchLog' = <<>>)
              /\ (fetchLog' # <<>> /\ ~fetchLog'[Len(fetchLog')].ok)
                    => (key \in DOMAIN cache' /\ cache'[key] = [value |-> None, age |-> 0])]_vars

\* None is served from the cache although FRED has recovered
C10_Witness ==
    /\ df = None
    /\ fetchLog = <<>>
    /\ fredDown = {}
    /\ GetLiquidityData(lookback_years, m2_shift_months, world, fredDown).ret # None

====
